---------------------------- MODULE Spec2Model ----------------------------
(***************************************************************************)
(* QGChat server: the rule-based dialog engine (matchRuleIntent), the      *)
(* conversation state store (conversations.state / conversations.meta),    *)
(* the job chain started by POST /api/process/start (worker.py, then       *)
(* makeQA.py, chained through the child processes' "error" and "exit"      *)
(* events), the progress files under progress/ and the polling endpoint    *)
(* GET /api/process/progress.                                              *)
(*                                                                         *)
(* Strings are TLA+ strings; the patterns of the source are evaluated on   *)
(* them character by character.  The Japanese alternatives of the patterns *)
(* are outside the input alphabet of the model (ASCII).                    *)
(***************************************************************************)
EXTENDS Integers, Sequences, FiniteSets, TLC

VARIABLES
  store,       \* conversations table: conversation id -> [state, meta]
  docs,        \* documents table: user id -> number of uploaded documents
  convJobMap,  \* registry key -> jobId ("" = no entry)
  files,       \* progress directory: path key -> file content
  pc,          \* jobId -> position of the job's stage chain
  nextJob,     \* number of jobIds allocated so far
  spawned,     \* jobId -> arguments the stage processes were launched with
  owrites,     \* jobId -> stages written by the server, in order (history)
  hist,        \* jobId -> who started it and how its stages ended (history)
  resp,        \* the last HTTP response sent
  now,         \* wall clock (new Date())
  crashed      \* an exception escaped a handler (uncaught)

vars == <<store, docs, convJobMap, files, pc, nextJob, spawned, owrites, hist, resp, now, crashed>>

(***************************************************************************)
(* Bounds                                                                  *)
(***************************************************************************)
MaxJobs == 2      \* start requests that allocate a job
MaxDocs == 1      \* uploads per user
MaxUploads == 2   \* uploads of the user whose uploads and job starts interleave
MaxClock == 2     \* clock ticks
MaxStoreJobs == 1 \* jobs started while the dialog is explored (SpecStore)

Users == {1, 2}
Convs == {1, 2}
\* conversation c was created by user c (POST /api/conversations)
OwnerOf(c) == c


(***************************************************************************)
(* Strings and numbers                                                     *)
(***************************************************************************)
Digits == "0123456789"

CharAt(s, i) == SubSeq(s, i, i)

DigitChars == {CharAt(Digits, i) : i \in 1..Len(Digits)}

IsDigit(ch) == ch \in DigitChars

DigitValues == [ch \in DigitChars |-> (CHOOSE i \in 1..Len(Digits) : CharAt(Digits, i) = ch) - 1]

DigitVal(ch) == DigitValues[ch]

NaN == 0 - 1

RECURSIVE DecValue(_)
DecValue(s) ==
  IF Len(s) = 0 THEN 0
  ELSE 10 * DecValue(SubSeq(s, 1, Len(s) - 1)) + DigitVal(CharAt(s, Len(s)))

\* Number.MAX_VALUE is about 1.8e308: a decimal of more than 309 digits (with
\* no leading zero) is above it
MaxDoubleDigits == 309

Infinity == 0 - 3

\* Number(x) of a decimal string: "" is 0, a string with a non-digit is NaN, a
\* decimal above Number.MAX_VALUE is Infinity (the model's inputs carry no
\* sign, exponent, radix prefix, blanks or leading zeros before 300 digits)
NumberOf(s) ==
  IF Len(s) > MaxDoubleDigits
  THEN (IF \A i \in 1..Len(s) : IsDigit(CharAt(s, i)) THEN Infinity ELSE NaN)
  ELSE IF \A i \in 1..Len(s) : IsDigit(CharAt(s, i)) THEN DecValue(s) ELSE NaN

\* `${n}` of a non-negative integer
RECURSIVE ToStr(_)
ToStr(n) ==
  IF n < 10 THEN CharAt(Digits, n + 1)
  ELSE ToStr(n \div 10) \o CharAt(Digits, (n % 10) + 1)

\* an HTTP response: handler, status, and the fields of its JSON body
Response(op, status, jobId, body) ==
  [op |-> op, status |-> status, jobId |-> jobId,
   stage |-> body.stage, message |-> body.message]

NoBody == [stage |-> "", message |-> ""]

(***************************************************************************)
(* Conversations table (db.js)                                             *)
(***************************************************************************)
NoConfig == [present |-> FALSE, questions |-> 0, difficulty |-> "", type |-> ""]

\* a null meta column, read as (meta || {}): every key absent.
\* Absent values: "" for strings, NaN for docId, 0 for lastRunAt.
EmptyMeta ==
  [lastChoice |-> "", docId |-> NaN, config |-> NoConfig, lastRunAt |-> 0,
   stored_filename |-> "", docTitle |-> "", videoName |-> "", courseName |-> ""]

\* createConversation(req.user.id, title, "ROOT_MENU"): state ROOT_MENU, meta null
NewConversation == [state |-> "ROOT_MENU", meta |-> EmptyMeta]

RowExists(u, c) == c \in Convs /\ OwnerOf(c) = u

\* getConversationState: {state, meta} of the row, {null, null} without one
getConversationState(u, c) ==
  IF RowExists(u, c) THEN store[c] ELSE [state |-> "", meta |-> EmptyMeta]

\* JSON null: what JSON.stringify stores for NaN and Infinity
Null == 0 - 2

\* JSON.stringify / JSON.parse of the meta column: a NaN or Infinity value is
\* stored as null (docId NaN stands for the absent key)
JsonRoundTrip(meta) ==
  [meta EXCEPT !.config.questions = IF @ \in {NaN, Infinity} THEN Null ELSE @,
               !.docId = IF @ = Infinity THEN Null ELSE @]

\* setConversationState: UPDATE ... SET state = ?, meta = COALESCE(?, meta),
\* with metaStr = meta ? JSON.stringify(meta) : null.
\* metaArg is <<>> for a null argument and <<m>> for the object m.
setConversationState(u, c, state, metaArg) ==
  IF RowExists(u, c)
  THEN [store EXCEPT ![c] =
          [state |-> state,
           meta |-> IF Len(metaArg) = 0 THEN store[c].meta
                    ELSE JsonRoundTrip(metaArg[1])]]
  ELSE store

(***************************************************************************)
(* Documents table: document n of user u                                   *)
(***************************************************************************)
StoredName(u, n) == "f" \o ToStr(u) \o "_" \o ToStr(n) \o ".mp4"

OriginalName(u, n) == "lecture" \o ToStr(u) \o "_" \o ToStr(n) \o ".mp4"

\* POST /api/upload: insertDocument
Upload(u) ==
  /\ ~crashed
  /\ docs[u] < MaxUploads
  /\ docs' = [docs EXCEPT ![u] = @ + 1]
  /\ resp' = Response("upload", 200, "", NoBody)
  /\ UNCHANGED <<store, convJobMap, files, pc, nextJob, spawned, owrites, hist, now, crashed>>

(***************************************************************************)
(* Progress files and the registry (server.js)                             *)
(***************************************************************************)
\* crypto.randomBytes(8).toString("hex"): the n-th jobId drawn; the draws are
\* taken to be pairwise different
JobIdOf(n) == "job" \o ToStr(n)

JobIds == {JobIdOf(n) : n \in 1..MaxJobs}

\* progressFile(jobId) = progress/<jobId>.json.  Besides the jobs' files the
\* model holds one file outside progress/ that the same expression reaches:
\* progressFile("../package") is the server's package.json (a JSON object
\* with neither stage nor message), and one name with no file at all.
ForeignId == "../package"

UnknownId == "ffff"

Paths == JobIds \cup {ForeignId, UnknownId}

Absent == "<absent>"

NoFile == [kind |-> "none", stage |-> Absent, message |-> Absent]

\* JSON.stringify({stage, message})
Record(stage, message) == [kind |-> "json", stage |-> stage, message |-> message]

PackageJson == [kind |-> "json", stage |-> Absent, message |-> Absent]

\* a file caught in the middle of a write by a stage process: not JSON
TornFile == [kind |-> "torn", stage |-> Absent, message |-> Absent]

RawOf(c) == {ToStr(c), "0" \o ToStr(c)}

\* the conversationId values of the requests: a conversation's number as
\* JSON/query text, canonical or zero-padded (Number() reads both alike)
RawIds == UNION {RawOf(c) : c \in Convs}

\* convJobMap.set(`${req.user.id}:${conversationId}`, jobId)
SetKey(u, raw) == ToStr(u) \o ":" \o raw

\* mutant: the key of the poll leaves the user out
GetKey_noUser(u, raw) ==
  "1:" \o (IF NumberOf(raw) = NaN THEN "NaN" ELSE ToStr(NumberOf(raw)))

\* convJobMap.get(`${req.user.id}:${Number(conversationId)}`)
GetKey(u, raw) ==
  ToStr(u) \o ":" \o (IF NumberOf(raw) = NaN THEN "NaN" ELSE ToStr(NumberOf(raw)))

Keys == {SetKey(u, raw) : u \in Users, raw \in RawIds}

MapGet(key) == IF key \in Keys THEN convJobMap[key] ELSE ""

UnknownProgress == [stage |-> "unknown", message |-> ""]

\* mutant: no existsSync test and no sentinel for a registry miss: a missing
\* record is answered with an error body
getProgress_notFound(u, qJobId, qConv) ==
  LET jobId == IF qJobId = "" /\ qConv # "" THEN MapGet(GetKey(u, qConv)) ELSE qJobId
  IN  IF jobId = "" \/ jobId \notin Paths \/ files[jobId].kind = "none"
      THEN [stage |-> "error", message |-> "not found"]
      ELSE IF files[jobId].kind = "json"
           THEN [stage |-> files[jobId].stage, message |-> files[jobId].message]
           ELSE UnknownProgress

\* GET /api/process/progress: the JSON body of the response
getProgress(u, qJobId, qConv) ==
  LET jobId == IF qJobId = "" /\ qConv # "" THEN MapGet(GetKey(u, qConv)) ELSE qJobId
  IN  IF jobId = "" THEN UnknownProgress
      ELSE IF jobId \notin Paths \/ files[jobId].kind = "none" THEN UnknownProgress
      ELSE IF files[jobId].kind = "json"
           THEN [stage |-> files[jobId].stage, message |-> files[jobId].message]
           ELSE UnknownProgress

Poll(u, qJobId, qConv) ==
  /\ ~crashed
  /\ resp' = Response("progress", 200, "", getProgress(u, qJobId, qConv))
  /\ UNCHANGED <<store, docs, convJobMap, files, pc, nextJob, spawned, owrites, hist, now, crashed>>

(***************************************************************************)
(* Metadata patches: the keys a patch names and their values               *)
(***************************************************************************)
MetaKeys ==
  {"lastChoice", "docId", "config", "lastRunAt",
   "stored_filename", "docTitle", "videoName", "courseName"}

Patch(keys, val) == [keys |-> keys, val |-> val]

NoPatch == Patch({}, EmptyMeta)

\* mutant: the patch alone is stored
Merge_replace(meta, patch) ==
  [k \in MetaKeys |-> IF k \in patch.keys THEN patch.val[k] ELSE EmptyMeta[k]]

\* { ...meta, ...patch }
Merge(meta, patch) ==
  [k \in MetaKeys |-> IF k \in patch.keys THEN patch.val[k] ELSE meta[k]]

(***************************************************************************)
(* POST /api/process/start and the stage chain                             *)
(***************************************************************************)
NoSpawn ==
  [user |-> 0, course |-> "", videoName |-> "", videoPath |-> "", stage2 |-> FALSE]

NoHist == [user |-> 0, conv |-> 0, raw |-> "", w1 |-> "", qa |-> ""]

\* mutant: one progress file for all jobs
WriteProgress_shared(jobId, stage, message) ==
  /\ files' = [files EXCEPT ![JobIdOf(1)] = Record(stage, message)]
  /\ owrites' = [owrites EXCEPT ![jobId] = Append(@, stage)]

\* fs.writeFileSync(progPath, JSON.stringify({stage, message}))
WriteProgress(jobId, stage, message) ==
  /\ files' = [files EXCEPT ![jobId] = Record(stage, message)]
  /\ owrites' = [owrites EXCEPT ![jobId] = Append(@, stage)]

\* mutant: the launch waits for the stage (spawnSync): the chain has ended
\* when it returns
SpawnOutcomes_sync(stage) == {"end"}

\* mutant: every launch is a launch of stage 2
SpawnOutcomes_stage2(stage) == {"qa", "qa_spawnfail"}

\* spawn(): the child is running, or the launch fails and "error" is emitted
SpawnOutcomes(stage) == {stage, stage \o "_spawnfail"}

\* mutant: the start goes on without a latest document
HasArtifact_noCheck(u, meta) == meta.stored_filename # "" \/ docs[u] >= 0

\* the input artifact: meta.stored_filename, else the user's latest document
HasArtifact(u, meta) == meta.stored_filename # "" \/ docs[u] > 0

ResolveStored(u, meta) ==
  IF meta.stored_filename # "" THEN meta.stored_filename
  ELSE StoredName(u, docs[u])

ResolveVideoName(u, meta) ==
  IF meta.stored_filename # ""
  THEN (IF meta.docTitle # "" THEN meta.docTitle ELSE meta.videoName)
  ELSE OriginalName(u, docs[u])

\* mutant: the resolved names are stored without the spread of meta
StoreAfterResolve_noSpread(u, c) ==
  LET st == getConversationState(u, c)
  IN  IF st.meta.stored_filename # "" THEN store
      ELSE setConversationState(u, c, st.state,
             <<[EmptyMeta EXCEPT
                  !.stored_filename = ResolveStored(u, st.meta),
                  !.docTitle = ResolveVideoName(u, st.meta)]>>)

\* the store after the artifact resolution of lines 463-471
StoreAfterResolve(u, c) ==
  LET st == getConversationState(u, c)
  IN  IF st.meta.stored_filename # "" THEN store
      ELSE setConversationState(u, c, st.state,
             <<Merge(st.meta,
                     Patch({"stored_filename", "docTitle"},
                           [EmptyMeta EXCEPT
                              !.stored_filename = ResolveStored(u, st.meta),
                              !.docTitle = ResolveVideoName(u, st.meta)]))>>)

StartJob(u, raw) ==
  LET c == NumberOf(raw)
      meta == getConversationState(u, c).meta
      jobId == JobIdOf(nextJob + 1)
  IN  /\ ~crashed
      /\ IF ~RowExists(u, c)
         THEN /\ resp' = Response("start", 404, "", NoBody)
              /\ UNCHANGED <<store, docs, convJobMap, files, pc, nextJob, spawned,
                             owrites, hist, now, crashed>>
         ELSE IF ~HasArtifact(u, meta)
         THEN /\ resp' = Response("start", 400, "", NoBody)
              /\ UNCHANGED <<store, docs, convJobMap, files, pc, nextJob, spawned,
                             owrites, hist, now, crashed>>
         ELSE /\ nextJob < MaxJobs
              /\ store' = StoreAfterResolve(u, c)
              /\ nextJob' = nextJob + 1
              /\ WriteProgress(jobId, "analysis", "analysis: starting OCR")
              /\ convJobMap' = [convJobMap EXCEPT ![SetKey(u, raw)] = jobId]
              /\ spawned' = [spawned EXCEPT ![jobId] =
                   [user |-> u,
                    course |-> IF meta.courseName # "" THEN meta.courseName ELSE "unset",
                    videoName |-> ResolveVideoName(u, meta),
                    videoPath |-> "uploads/" \o ResolveStored(u, meta),
                    stage2 |-> FALSE]]
              /\ \E o \in SpawnOutcomes("w1") : pc' = [pc EXCEPT ![jobId] = o]
              /\ hist' = [hist EXCEPT ![jobId] =
                   [user |-> u, conv |-> c, raw |-> raw, w1 |-> "", qa |-> ""]]
              /\ resp' = Response("start", 200, jobId, NoBody)
              /\ UNCHANGED <<docs, now, crashed>>

\* the exit codes of a stage process, as `${code}` prints them: null when a
\* signal ended it
ExitCodes == {"0", "1", "null"}

\* mutant: const ok = !code (a null code counts as success)
ok_falsy(code) == code \in {"0", "null"}

\* const ok = code === 0
ok(code) == code = "0"

\* w1.on("error")
W1Error(j) ==
  /\ ~crashed
  /\ pc[j] = "w1_spawnfail"
  /\ WriteProgress(j, "error", "Error: spawn python3 ENOENT")
  /\ pc' = [pc EXCEPT ![j] = "end"]
  /\ hist' = [hist EXCEPT ![j].w1 = "error"]
  /\ UNCHANGED <<store, docs, convJobMap, nextJob, spawned, resp, now, crashed>>

\* w1.on("exit")
W1Exit(j, code) ==
  /\ ~crashed
  /\ pc[j] = "w1"
  /\ IF ~ok(code)
     THEN /\ WriteProgress(j, "error", "worker exit " \o code)
          /\ pc' = [pc EXCEPT ![j] = "end"]
          /\ UNCHANGED spawned
     ELSE /\ WriteProgress(j, "qa", "qa: starting")
          /\ spawned' = [spawned EXCEPT ![j].stage2 = TRUE]
          /\ \E o \in SpawnOutcomes("qa") : pc' = [pc EXCEPT ![j] = o]
  /\ hist' = [hist EXCEPT ![j].w1 = code]
  /\ UNCHANGED <<store, docs, convJobMap, nextJob, resp, now, crashed>>

\* qa.on("error")
QaError(j) ==
  /\ ~crashed
  /\ pc[j] = "qa_spawnfail"
  /\ WriteProgress(j, "error", "Error: spawn python3 ENOENT")
  /\ pc' = [pc EXCEPT ![j] = "end"]
  /\ hist' = [hist EXCEPT ![j].qa = "error"]
  /\ UNCHANGED <<store, docs, convJobMap, nextJob, spawned, resp, now, crashed>>

\* mutant: the two arms of the conditional exchanged
QaMsg_swapped(c2) ==
  IF c2 = "0" THEN Record("error", "qa exit " \o c2) ELSE Record("done", "complete")

\* mutant: the exit code of stage 2 is not looked at
QaMsg_alwaysDone(c2) == Record("done", "complete")

\* const msg = c2 === 0 ? {stage:"done"} : {stage:"error"}
QaMsg(c2) ==
  IF c2 = "0" THEN Record("done", "complete") ELSE Record("error", "qa exit " \o c2)

\* qa.on("exit")
QaExit(j, c2) ==
  /\ ~crashed
  /\ pc[j] = "qa"
  /\ WriteProgress(j, QaMsg(c2).stage, QaMsg(c2).message)
  /\ pc' = [pc EXCEPT ![j] = "end"]
  /\ hist' = [hist EXCEPT ![j].qa = c2]
  /\ UNCHANGED <<store, docs, convJobMap, nextJob, spawned, resp, now, crashed>>

\* a running stage process updates the file it was given with --progress:
\* a record of its own stage, or (seen in the middle of the write) no JSON
WorkerProgress(j) ==
  /\ ~crashed
  /\ pc[j] \in {"w1", "qa"}
  /\ \E f \in {Record(IF pc[j] = "w1" THEN "analysis" ELSE "qa", "progress"), TornFile} :
       files' = [files EXCEPT ![j] = f]
  /\ UNCHANGED <<store, docs, convJobMap, pc, nextJob, spawned, owrites, hist, resp, now, crashed>>

(***************************************************************************)
(* Pattern matching on the chat text (server.js, matchRuleIntent)          *)
(***************************************************************************)
Uppers == "ABCDEFGHIJKLMNOPQRSTUVWXYZ"

Lowers == "abcdefghijklmnopqrstuvwxyz"

UpperChars == {CharAt(Uppers, i) : i \in 1..Len(Uppers)}

LowerChars == {CharAt(Lowers, i) : i \in 1..Len(Lowers)}

LowerOf ==
  [ch \in UpperChars |-> CharAt(Lowers, CHOOSE i \in 1..Len(Uppers) : CharAt(Uppers, i) = ch)]

LowerChar(ch) == IF ch \in UpperChars THEN LowerOf[ch] ELSE ch

\* the i flag / toLowerCase()
RECURSIVE Lower(_)
Lower(s) == IF Len(s) = 0 THEN "" ELSE LowerChar(CharAt(s, 1)) \o Lower(SubSeq(s, 2, Len(s)))

\* \s
IsSpace(ch) == ch = " "

\* \w
IsWord(ch) == IsDigit(ch) \/ ch = "_" \/ ch \in LowerChars \/ ch \in UpperChars

\* (text || "").trim()
RECURSIVE Trim(_)
Trim(s) ==
  IF Len(s) = 0 THEN s
  ELSE IF IsSpace(CharAt(s, 1)) THEN Trim(SubSeq(s, 2, Len(s)))
  ELSE IF IsSpace(CharAt(s, Len(s))) THEN Trim(SubSeq(s, 1, Len(s) - 1))
  ELSE s

\* the literal lit stands in s at position i (case-insensitive)
LitAt(s, i, lit) ==
  /\ i + Len(lit) - 1 <= Len(s)
  /\ Lower(SubSeq(s, i, i + Len(lit) - 1)) = lit

Contains(s, lit) == \E i \in 1..Len(s) : LitAt(s, i, lit)

\* the first position from i on that holds no character of the class
RECURSIVE SkipSpaces(_, _)
SkipSpaces(s, i) ==
  IF i <= Len(s) /\ IsSpace(CharAt(s, i)) THEN SkipSpaces(s, i + 1) ELSE i

SkipDigits(s, i) ==
  IF i > Len(s) THEN i
  ELSE CHOOSE j \in i..(Len(s) + 1) :
         /\ j = Len(s) + 1 \/ ~IsDigit(CharAt(s, j))
         /\ \A k \in i..(j - 1) : IsDigit(CharAt(s, k))

\* \b after a word character at position i: the end, or a non-word character
BoundaryAfter(s, i) == i = Len(s) \/ ~IsWord(CharAt(s, i + 1))

\* /^(1[-]?d)\b/ for the digit d
MenuCode(t, d) ==
  \/ LitAt(t, 1, "1-" \o d) /\ BoundaryAfter(t, 3)
  \/ LitAt(t, 1, "1" \o d) /\ BoundaryAfter(t, 2)

is11(t) == MenuCode(t, "1")

is12(t) == MenuCode(t, "2")

help(t) == Contains(t, "help")

back(t) == Len(t) = 4 /\ LitAt(t, 1, "back")

home(t) == Len(t) = 4 /\ LitAt(t, 1, "home")

run(t) == Len(t) = 3 /\ LitAt(t, 1, "run")

\* /^<word>\s*:\s*(\d+)/i: the captured digits, "" without a match
ColonNumber(t, from) ==
  LET a == SkipSpaces(t, from)
      b == SkipSpaces(t, a + 1)
      e == SkipDigits(t, b)
  IN  IF a <= Len(t) /\ CharAt(t, a) = ":" /\ e > b THEN SubSeq(t, b, e - 1) ELSE ""

\* /^select\s+doc\s*:\s*(\d+)/i
selectDoc(t) ==
  LET a == SkipSpaces(t, 7)
  IN  IF LitAt(t, 1, "select") /\ a > 7 /\ LitAt(t, a, "doc")
      THEN ColonNumber(t, a + 3) ELSE ""

\* /^uploaded\s*:\s*(\d+)/i
uploaded(t) == IF LitAt(t, 1, "uploaded") THEN ColonNumber(t, 9) ELSE ""

\* /^set\s*:/i
isSet(t) ==
  /\ LitAt(t, 1, "set")
  /\ SkipSpaces(t, 4) <= Len(t)
  /\ CharAt(t, SkipSpaces(t, 4)) = ":"

(***************************************************************************)
(* parseKV and the generation configuration                                *)
(***************************************************************************)
IsSep(ch) == ch = "," \/ IsSpace(ch)

RECURSIVE SkipSeps(_, _)
SkipSeps(s, i) == IF i <= Len(s) /\ IsSep(CharAt(s, i)) THEN SkipSeps(s, i + 1) ELSE i

RECURSIVE SkipToken(_, _)
SkipToken(s, i) == IF i <= Len(s) /\ ~IsSep(CharAt(s, i)) THEN SkipToken(s, i + 1) ELSE i

\* m.split(/[,\s]+/).filter(Boolean), from position i on
RECURSIVE Tokens(_, _)
Tokens(s, i) ==
  LET a == SkipSeps(s, i)
      e == SkipToken(s, a)
  IN  IF a > Len(s) THEN <<>> ELSE <<SubSeq(s, a, e - 1)>> \o Tokens(s, e)

\* the first position from i on that holds "=", Len(s) + 1 without one
RECURSIVE FindEq(_, _)
FindEq(s, i) == IF i <= Len(s) /\ CharAt(s, i) # "=" THEN FindEq(s, i + 1) ELSE i

\* const [k, v] = kv.split("="): the first two of the pieces ("" = undefined)
KeyOfPair(kv) == SubSeq(kv, 1, FindEq(kv, 1) - 1)

ValueOfPair(kv) ==
  LET e1 == FindEq(kv, 1)
  IN  IF e1 > Len(kv) THEN "" ELSE SubSeq(kv, e1 + 1, FindEq(kv, e1 + 1) - 1)

\* out[key] after the loop over the pairs: the last pair that names key with
\* a non-empty k and v ("" = undefined)
RECURSIVE LastValue(_, _)
LastValue(kvs, key) ==
  IF Len(kvs) = 0 THEN ""
  ELSE LET kv == kvs[Len(kvs)]
       IN  IF KeyOfPair(kv) # "" /\ ValueOfPair(kv) # "" /\ Lower(KeyOfPair(kv)) = key
           THEN ValueOfPair(kv)
           ELSE LastValue(SubSeq(kvs, 1, Len(kvs) - 1), key)

\* parseKV(command), read at the three keys the engine uses
parseKV(t) ==
  LET colon == SkipSpaces(t, 4)
      kvs == Tokens(t, SkipSpaces(t, colon + 1))
  IN  [questions |-> LastValue(kvs, "questions"),
       difficulty |-> LastValue(kvs, "difficulty"),
       type |-> LastValue(kvs, "type")]

DefaultQuestions == 10

DefaultConfig ==
  [present |-> TRUE, questions |-> DefaultQuestions, difficulty |-> "middle", type |-> "mcq"]

\* meta.config || { questions: 10, difficulty: "middle", type: "mcq" }
CurrentConfig(meta) == IF meta.config.present THEN meta.config ELSE DefaultConfig

\* the config of a "set:" command: setCmd.x ?? prev.x ?? default
SetConfig(setCmd, meta) ==
  LET prev == meta.config
  IN  [present |-> TRUE,
       questions |->
         IF setCmd.questions # "" THEN NumberOf(setCmd.questions)
         ELSE IF prev.present /\ prev.questions # Null THEN prev.questions
         ELSE DefaultQuestions,
       difficulty |->
         IF setCmd.difficulty # "" THEN setCmd.difficulty
         ELSE IF prev.present THEN prev.difficulty ELSE "middle",
       type |->
         IF setCmd.type # "" THEN setCmd.type
         ELSE IF prev.present THEN prev.type ELSE "mcq"]

NumText(n) ==
  IF n = NaN THEN "NaN" ELSE IF n = Null THEN "null"
  ELSE IF n = Infinity THEN "Infinity" ELSE ToStr(n)

ConfigText(c) ==
  "questions=" \o NumText(c.questions) \o ", difficulty=" \o c.difficulty
    \o ", type=" \o c.type

(***************************************************************************)
(* matchRuleIntent(text, state, meta): null, or {reply, newState, metaPatch}*)
(***************************************************************************)
NoMatch == [hit |-> FALSE, reply |-> "", newState |-> "", metaPatch |-> NoPatch]

Hit(reply, newState, metaPatch) ==
  [hit |-> TRUE, reply |-> reply, newState |-> newState, metaPatch |-> metaPatch]

DocText(meta) == IF meta.docId = NaN THEN "undefined" ELSE NumText(meta.docId)

\* mutant: help is tested first
RootRules_helpFirst(t) ==
  IF help(t) THEN Hit("help: 1-1 existing / 1-2 upload", "ROOT_MENU", NoPatch)
  ELSE IF is11(t)
  THEN Hit("existing document: select one", "FLOW_EXISTING_DOC_SELECT",
           Patch({"lastChoice"}, [EmptyMeta EXCEPT !.lastChoice = "1-1"]))
  ELSE IF is12(t)
  THEN Hit("upload: enter uploaded: <docId>", "FLOW_UPLOAD_DOC_WAIT",
           Patch({"lastChoice"}, [EmptyMeta EXCEPT !.lastChoice = "1-2"]))
  ELSE NoMatch

\* mutant: the two menu choices record each other's branch tag
RootRules_swappedTags(t) ==
  IF is11(t)
  THEN Hit("existing document: select one", "FLOW_EXISTING_DOC_SELECT",
           Patch({"lastChoice"}, [EmptyMeta EXCEPT !.lastChoice = "1-2"]))
  ELSE IF is12(t)
  THEN Hit("upload: enter uploaded: <docId>", "FLOW_UPLOAD_DOC_WAIT",
           Patch({"lastChoice"}, [EmptyMeta EXCEPT !.lastChoice = "1-1"]))
  ELSE IF help(t) THEN Hit("help: 1-1 existing / 1-2 upload", "ROOT_MENU", NoPatch)
  ELSE NoMatch

\* case "ROOT_MENU": default:
RootRules(t) ==
  IF is11(t)
  THEN Hit("existing document: select one", "FLOW_EXISTING_DOC_SELECT",
           Patch({"lastChoice"}, [EmptyMeta EXCEPT !.lastChoice = "1-1"]))
  ELSE IF is12(t)
  THEN Hit("upload: enter uploaded: <docId>", "FLOW_UPLOAD_DOC_WAIT",
           Patch({"lastChoice"}, [EmptyMeta EXCEPT !.lastChoice = "1-2"]))
  ELSE IF help(t) THEN Hit("help: 1-1 existing / 1-2 upload", "ROOT_MENU", NoPatch)
  ELSE NoMatch

\* mutant: choosing a document puts the configuration back to the defaults
DocChosen_resetsConfig(digits, meta, newState) ==
  Hit("doc " \o NumText(NumberOf(digits)) \o "; " \o ConfigText(DefaultConfig),
      newState,
      Patch({"docId", "config"},
            [EmptyMeta EXCEPT !.docId = NumberOf(digits), !.config = DefaultConfig]))

\* the reply and patch of a document chosen by "select doc:" / "uploaded:"
DocChosen(digits, meta, newState) ==
  Hit("doc " \o NumText(NumberOf(digits)) \o "; " \o ConfigText(CurrentConfig(meta)),
      newState,
      Patch({"docId"}, [EmptyMeta EXCEPT !.docId = NumberOf(digits)]))

\* case "FLOW_EXISTING_DOC_SELECT"
SelectRules(t, meta) ==
  IF home(t) THEN Hit("to menu", "ROOT_MENU", NoPatch)
  ELSE IF back(t) THEN Hit("one step back", "ROOT_MENU", NoPatch)
  ELSE IF selectDoc(t) # "" THEN DocChosen(selectDoc(t), meta, "FLOW_EXISTING_DOC_CONFIG")
  ELSE Hit("use select doc: <id>", "FLOW_EXISTING_DOC_SELECT", NoPatch)

\* mutant: "run" stores the configuration it has read
ConfigRules_runStoresConfig(t, meta, self, clock) ==
  IF isSet(t)
  THEN Hit("updated; " \o ConfigText(SetConfig(parseKV(t), meta)), self,
           Patch({"config"}, [EmptyMeta EXCEPT !.config = SetConfig(parseKV(t), meta)]))
  ELSE IF run(t)
  THEN Hit("generating; doc=" \o DocText(meta) \o ", " \o ConfigText(CurrentConfig(meta)),
           "FLOW_QG_DONE",
           Patch({"lastRunAt", "config"},
                 [EmptyMeta EXCEPT !.lastRunAt = clock, !.config = CurrentConfig(meta)]))
  ELSE NoMatch

\* mutant: the reply of "run" tells the time of the call
ConfigRules_clockInReply(t, meta, self, clock) ==
  IF isSet(t)
  THEN Hit("updated; " \o ConfigText(SetConfig(parseKV(t), meta)), self,
           Patch({"config"}, [EmptyMeta EXCEPT !.config = SetConfig(parseKV(t), meta)]))
  ELSE IF run(t)
  THEN Hit("generating at " \o ToStr(clock) \o "; doc=" \o DocText(meta) \o ", "
             \o ConfigText(CurrentConfig(meta)),
           "FLOW_QG_DONE",
           Patch({"lastRunAt"}, [EmptyMeta EXCEPT !.lastRunAt = clock]))
  ELSE NoMatch

\* mutant: a config state answers unmatched input with a re-prompt
ConfigRules_reprompt(t, meta, self, clock) ==
  IF isSet(t)
  THEN Hit("updated; " \o ConfigText(SetConfig(parseKV(t), meta)), self,
           Patch({"config"}, [EmptyMeta EXCEPT !.config = SetConfig(parseKV(t), meta)]))
  ELSE IF run(t)
  THEN Hit("generating; doc=" \o DocText(meta) \o ", " \o ConfigText(CurrentConfig(meta)),
           "FLOW_QG_DONE",
           Patch({"lastRunAt"}, [EmptyMeta EXCEPT !.lastRunAt = clock]))
  ELSE Hit("use set: or run", self, NoPatch)

\* the "set:" and "run" rules shared by the two config cases
ConfigRules(t, meta, self, clock) ==
  IF isSet(t)
  THEN Hit("updated; " \o ConfigText(SetConfig(parseKV(t), meta)), self,
           Patch({"config"}, [EmptyMeta EXCEPT !.config = SetConfig(parseKV(t), meta)]))
  ELSE IF run(t)
  THEN Hit("generating; doc=" \o DocText(meta) \o ", " \o ConfigText(CurrentConfig(meta)),
           "FLOW_QG_DONE",
           Patch({"lastRunAt"}, [EmptyMeta EXCEPT !.lastRunAt = clock]))
  ELSE NoMatch

\* mutant: "back" leaves the existing-document flow for the upload flow
ExistingConfigRules_backToWait(t, meta, clock) ==
  IF home(t) THEN Hit("to menu", "ROOT_MENU", NoPatch)
  ELSE IF back(t) THEN Hit("back to upload", "FLOW_UPLOAD_DOC_WAIT", NoPatch)
  ELSE ConfigRules(t, meta, "FLOW_EXISTING_DOC_CONFIG", clock)

\* case "FLOW_EXISTING_DOC_CONFIG"
ExistingConfigRules(t, meta, clock) ==
  IF home(t) THEN Hit("to menu", "ROOT_MENU", NoPatch)
  ELSE IF back(t) THEN Hit("back to selection", "FLOW_EXISTING_DOC_SELECT", NoPatch)
  ELSE ConfigRules(t, meta, "FLOW_EXISTING_DOC_CONFIG", clock)

\* case "FLOW_UPLOAD_DOC_WAIT"
UploadWaitRules(t, meta) ==
  IF home(t) THEN Hit("to menu", "ROOT_MENU", NoPatch)
  ELSE IF back(t) THEN Hit("to menu", "ROOT_MENU", NoPatch)
  ELSE IF uploaded(t) # "" THEN DocChosen(uploaded(t), meta, "FLOW_UPLOAD_DOC_CONFIG")
  ELSE Hit("enter uploaded: <docId>", "FLOW_UPLOAD_DOC_WAIT", NoPatch)

\* mutant: "back" leaves the upload flow for the menu
UploadConfigRules_backToMenu(t, meta, clock) ==
  IF home(t) THEN Hit("to menu", "ROOT_MENU", NoPatch)
  ELSE IF back(t) THEN Hit("to menu", "ROOT_MENU", NoPatch)
  ELSE ConfigRules(t, meta, "FLOW_UPLOAD_DOC_CONFIG", clock)

\* case "FLOW_UPLOAD_DOC_CONFIG"
UploadConfigRules(t, meta, clock) ==
  IF home(t) THEN Hit("to menu", "ROOT_MENU", NoPatch)
  ELSE IF back(t) THEN Hit("back to upload", "FLOW_UPLOAD_DOC_WAIT", NoPatch)
  ELSE ConfigRules(t, meta, "FLOW_UPLOAD_DOC_CONFIG", clock)

\* mutant: "back" goes to the upload branch unless the tag is absent
DoneRules_absentIsExisting(t, meta) ==
  IF home(t) THEN Hit("to menu", "ROOT_MENU", NoPatch)
  ELSE IF back(t)
  THEN Hit("back to config",
           IF meta.lastChoice \in {"1-1", ""} THEN "FLOW_EXISTING_DOC_CONFIG"
           ELSE "FLOW_UPLOAD_DOC_CONFIG",
           NoPatch)
  ELSE NoMatch

\* case "FLOW_QG_DONE"
DoneRules(t, meta) ==
  IF home(t) THEN Hit("to menu", "ROOT_MENU", NoPatch)
  ELSE IF back(t)
  THEN Hit("back to config",
           IF meta.lastChoice = "1-1" THEN "FLOW_EXISTING_DOC_CONFIG"
           ELSE "FLOW_UPLOAD_DOC_CONFIG",
           NoPatch)
  ELSE NoMatch

\* clock is the value new Date() has during the call
matchRuleIntent(text, state, meta, clock) ==
  LET t == Trim(text)
  IN  CASE state = "FLOW_EXISTING_DOC_SELECT" -> SelectRules(t, meta)
        [] state = "FLOW_EXISTING_DOC_CONFIG" -> ExistingConfigRules(t, meta, clock)
        [] state = "FLOW_UPLOAD_DOC_WAIT" -> UploadWaitRules(t, meta)
        [] state = "FLOW_UPLOAD_DOC_CONFIG" -> UploadConfigRules(t, meta, clock)
        [] state = "FLOW_QG_DONE" -> DoneRules(t, meta)
        [] OTHER -> RootRules(t)

(***************************************************************************)
(* POST /api/chat and POST /api/scenario                                   *)
(***************************************************************************)
\* mutant: a message no rule matches sends the conversation back to the menu
Chat_fallbackResets(u, raw, text) ==
  LET c == NumberOf(raw)
      st == getConversationState(u, c)
      ruleHit == matchRuleIntent(text, IF st.state = "" THEN "ROOT_MENU" ELSE st.state,
                                 st.meta, now)
  IN  /\ ~crashed
      /\ IF raw = "" \/ Trim(text) = ""
         THEN /\ resp' = Response("chat", 400, "", NoBody)
              /\ UNCHANGED store
         ELSE IF ~RowExists(u, c)
         THEN /\ resp' = Response("chat", 404, "", NoBody)
              /\ UNCHANGED store
         ELSE IF ruleHit.hit
         THEN /\ store' = setConversationState(u, c,
                            IF ruleHit.newState # "" THEN ruleHit.newState ELSE st.state,
                            <<Merge(st.meta, ruleHit.metaPatch)>>)
              /\ resp' = Response("chat", 200, "", [stage |-> "rule", message |-> ruleHit.reply])
         ELSE /\ resp' = Response("chat", 200, "", [stage |-> "llm", message |-> ""])
              /\ store' = setConversationState(u, c, "ROOT_MENU", <<>>)
      /\ UNCHANGED <<docs, convJobMap, files, pc, nextJob, spawned, owrites, hist, now, crashed>>

\* the response tells a rule's reply ("rule") from the fallback responder's
\* ("llm"); the reply text is matchRuleIntent(...).reply
Chat(u, raw, text) ==
  LET c == NumberOf(raw)
      st == getConversationState(u, c)
      ruleHit == matchRuleIntent(text, IF st.state = "" THEN "ROOT_MENU" ELSE st.state,
                                 st.meta, now)
  IN  /\ ~crashed
      /\ IF raw = "" \/ Trim(text) = ""
         THEN /\ resp' = Response("chat", 400, "", NoBody)
              /\ UNCHANGED store
         ELSE IF ~RowExists(u, c)
         THEN /\ resp' = Response("chat", 404, "", NoBody)
              /\ UNCHANGED store
         ELSE IF ruleHit.hit
         THEN /\ store' = setConversationState(u, c,
                            IF ruleHit.newState # "" THEN ruleHit.newState ELSE st.state,
                            <<Merge(st.meta, ruleHit.metaPatch)>>)
              /\ resp' = Response("chat", 200, "", [stage |-> "rule", message |-> ruleHit.reply])
         ELSE /\ resp' = Response("chat", 200, "", [stage |-> "llm", message |-> ""])
              /\ UNCHANGED store
      /\ UNCHANGED <<docs, convJobMap, files, pc, nextJob, spawned, owrites, hist, now, crashed>>

\* FE_TO_BE[id] ("" = undefined)
FE_TO_BE(id) ==
  CASE id = "root" -> "ROOT_MENU"
    [] id = "1" -> "FLOW_EXISTING_DOC_SELECT"
    [] id = "1-course" -> "FLOW_EXISTING_DOC_COURSE"
    [] id = "1-1" -> "FLOW_EXISTING_DOC_CONFIG"
    [] id = "2" -> "FLOW_UPLOAD_DOC_WAIT"
    [] id = "2-course" -> "FLOW_UPLOAD_DOC_COURSE"
    [] id = "2-1" -> "FLOW_UPLOAD_DOC_CONFIG"
    [] id = "2-2" -> "FLOW_QG_DONE"
    [] id = "2-3" -> "FLOW_QG_TOPIC"
    [] id = "2-4" -> "FLOW_QG_MULTI"
    [] id = "2-5" -> "FLOW_QG_RESULTS"
    [] OTHER -> ""

\* mutant: the front-end id is stored as the state
ScenarioState_rawId(id) == id

\* const nextState = FE_TO_BE[id] || "ROOT_MENU"
ScenarioState(id) == IF FE_TO_BE(id) # "" THEN FE_TO_BE(id) ELSE "ROOT_MENU"

Scenario(u, raw, id, metaPatch) ==
  LET c == NumberOf(raw)
      current == getConversationState(u, c)
  IN  /\ ~crashed
      /\ IF c = NaN \/ id = ""
         THEN /\ resp' = Response("scenario", 400, "", NoBody)
              /\ UNCHANGED store
         ELSE IF ~RowExists(u, c)
         THEN /\ resp' = Response("scenario", 404, "", NoBody)
              /\ UNCHANGED store
         ELSE /\ store' = setConversationState(u, c, ScenarioState(id),
                            <<Merge(current.meta, metaPatch)>>)
              /\ resp' = Response("scenario", 204, "", NoBody)
      /\ UNCHANGED <<docs, convJobMap, files, pc, nextJob, spawned, owrites, hist, now, crashed>>

\* time passes
Tick ==
  /\ ~crashed
  /\ now < MaxClock
  /\ now' = now + 1
  /\ UNCHANGED <<store, docs, convJobMap, files, pc, nextJob, spawned, owrites, hist, resp, crashed>>

(***************************************************************************)
(* Inputs of the requests                                                  *)
(***************************************************************************)
Texts ==
  {"1-1", "1-2", "help", "select doc: 7", "uploaded: 7", "run", "home", "back",
   "hello", "set: questions=20, difficulty=hard", "set: difficulty=easy",
   "set: questions=abc"}

ScenarioIds ==
  {"root", "1", "1-course", "1-1", "2", "2-course", "2-1", "2-2", "2-3", "2-4",
   "2-5", "zz"}

ScenarioPatches ==
  {NoPatch,
   Patch({"stored_filename", "docTitle"},
         [EmptyMeta EXCEPT !.stored_filename = "f1_9.mp4", !.docTitle = "old.mp4"])}

NavTexts ==
  {"1-1", "1-2", "select doc: 7", "uploaded: 7", "run", "home", "back", "hello"}

Nines40 == "9999999999999999999999999999999999999999"

Nines160 == Nines40 \o Nines40 \o Nines40 \o Nines40

\* a chat message whose id (320 digits) is above Number.MAX_VALUE
LongSelect == "select doc: " \o Nines160 \o Nines160

ChatTexts == Texts \cup {LongSelect}

PollIds == Paths \cup {""}

PollConvs == RawIds \cup {""}

(***************************************************************************)
(* The server                                                              *)
(***************************************************************************)
Init ==
  /\ store = [c \in Convs |-> NewConversation]
  /\ docs = [u \in Users |-> 0]
  /\ convJobMap = [k \in Keys |-> ""]
  /\ files = [p \in Paths |-> IF p = ForeignId THEN PackageJson ELSE NoFile]
  /\ pc = [j \in JobIds |-> "none"]
  /\ nextJob = 0
  /\ spawned = [j \in JobIds |-> NoSpawn]
  /\ owrites = [j \in JobIds |-> <<>>]
  /\ hist = [j \in JobIds |-> NoHist]
  /\ resp = Response("none", 0, "", NoBody)
  /\ now = 1
  /\ crashed = FALSE

\* the job orchestrator and its pollers
Next ==
  \/ \E u \in Users, raw \in RawIds : StartJob(u, raw)
  \/ \E j \in JobIds : W1Error(j)
  \/ \E j \in JobIds, code \in ExitCodes : W1Exit(j, code)
  \/ \E j \in JobIds : QaError(j)
  \/ \E j \in JobIds, c2 \in ExitCodes : QaExit(j, c2)
  \/ \E j \in JobIds : WorkerProgress(j)
  \/ \E u \in Users, qJobId \in PollIds, qConv \in PollConvs : Poll(u, qJobId, qConv)
  \/ \E u \in Users : docs[u] < MaxDocs /\ Upload(u)

Spec == Init /\ [][Next]_vars

\* the dialog of conversation 1
NextDialog ==
  \/ \E u \in Users, text \in Texts : Chat(u, "1", text)
  \/ \E u \in Users, id \in ScenarioIds : Scenario(u, "1", id, NoPatch)
  \/ Tick

SpecDialog == Init /\ [][NextDialog]_vars

\* conversation 1 driven by chat messages alone
NextChat ==
  \/ \E u \in Users, text \in ChatTexts : Chat(u, "1", text)
  \/ Tick

SpecChat == Init /\ [][NextChat]_vars

\* conversation 1 driven by chat messages, state-set calls and job starts
NextStore ==
  \/ \E u \in Users, text \in NavTexts : Chat(u, "1", text)
  \/ \E u \in Users, id \in ScenarioIds, mp \in ScenarioPatches : Scenario(u, "1", id, mp)
  \/ \E u \in Users : nextJob < MaxStoreJobs /\ StartJob(u, "1")
  \/ \E j \in JobIds : W1Error(j)
  \/ \E j \in JobIds, code \in ExitCodes : W1Exit(j, code)
  \/ \E j \in JobIds : QaError(j)
  \/ \E j \in JobIds, c2 \in ExitCodes : QaExit(j, c2)
  \/ docs[1] < MaxDocs /\ Upload(1)

SpecStore == Init /\ [][NextStore]_vars

\* the requests user 2 sends for every conversation, its own and user 1's,
\* while user 1 uploads and starts jobs
IntruderTexts == {"1-1", "select doc: 7", "run"}

IntruderIds == {"2-1", "2-3"}

NextIsolation ==
  \/ \E raw \in RawIds, text \in IntruderTexts : Chat(2, raw, text)
  \/ \E raw \in RawIds, id \in IntruderIds, mp \in ScenarioPatches : Scenario(2, raw, id, mp)
  \/ \E u \in Users, raw \in RawIds : nextJob < MaxStoreJobs /\ StartJob(u, raw)
  \/ \E j \in JobIds : W1Error(j)
  \/ \E j \in JobIds, code \in ExitCodes : W1Exit(j, code)
  \/ \E j \in JobIds : QaError(j)
  \/ \E j \in JobIds, c2 \in ExitCodes : QaExit(j, c2)
  \/ \E qConv \in PollConvs : Poll(2, "", qConv)
  \/ \E u \in Users : docs[u] < MaxDocs /\ Upload(u)

SpecIsolation == Init /\ [][NextIsolation]_vars

\* uploads and job starts of user 1 for conversation 1, in any order
NextUploads ==
  \/ Upload(1)
  \/ StartJob(1, "1")
  \/ \E j \in JobIds : W1Error(j)
  \/ \E j \in JobIds, code \in ExitCodes : W1Exit(j, code)
  \/ \E j \in JobIds : QaError(j)
  \/ \E j \in JobIds, c2 \in ExitCodes : QaExit(j, c2)
  \/ \E qJobId \in PollIds : Poll(1, qJobId, "1")

SpecUploads == Init /\ [][NextUploads]_vars

(***************************************************************************)
(* Failing system calls.  fs.writeFileSync and spawn can throw (progress/  *)
(* removed by reset.js LOG, a full disk, E2BIG, ENOMEM).  No handler of    *)
(* the start path or of the stage chain catches: the exception leaves the  *)
(* event handler (uncaught exception) or rejects the async route handler   *)
(* (unhandled rejection), and no later statement of the handler runs.      *)
(***************************************************************************)
\* line 476 wrote the record, line 479 set the registry, spawn (483) throws:
\* no child, no handlers, no response
StartJobSpawnThrows(u, raw) ==
  LET c == NumberOf(raw)
      meta == getConversationState(u, c).meta
      jobId == JobIdOf(nextJob + 1)
  IN  /\ ~crashed
      /\ RowExists(u, c)
      /\ HasArtifact(u, meta)
      /\ nextJob < MaxJobs
      /\ store' = StoreAfterResolve(u, c)
      /\ nextJob' = nextJob + 1
      /\ WriteProgress(jobId, "analysis", "analysis: starting OCR")
      /\ convJobMap' = [convJobMap EXCEPT ![SetKey(u, raw)] = jobId]
      /\ pc' = [pc EXCEPT ![jobId] = "end"]
      /\ hist' = [hist EXCEPT ![jobId] =
           [user |-> u, conv |-> c, raw |-> raw, w1 |-> "throw", qa |-> ""]]
      /\ crashed' = TRUE
      /\ UNCHANGED <<docs, spawned, resp, now>>

\* the writeFileSync of an "error" or "exit" handler throws (lines 498, 505,
\* 509, 525, 529): the record stays as it was
HandlerWriteThrows(j) ==
  /\ ~crashed
  /\ pc[j] \in {"w1", "w1_spawnfail", "qa", "qa_spawnfail"}
  /\ pc' = [pc EXCEPT ![j] = "end"]
  /\ hist' = [hist EXCEPT ![j] =
       IF pc[j] \in {"w1", "w1_spawnfail"} THEN [@ EXCEPT !.w1 = "throw"]
       ELSE [@ EXCEPT !.qa = "throw"]]
  /\ crashed' = TRUE
  /\ UNCHANGED <<store, docs, convJobMap, files, nextJob, spawned, owrites, resp, now>>

\* w1 exits with code 0, line 509 writes the "qa" record, spawn (511) throws
QaSpawnThrows(j) ==
  /\ ~crashed
  /\ pc[j] = "w1"
  /\ WriteProgress(j, "qa", "qa: starting")
  /\ pc' = [pc EXCEPT ![j] = "end"]
  /\ hist' = [hist EXCEPT ![j].w1 = "0", ![j].qa = "throw"]
  /\ crashed' = TRUE
  /\ UNCHANGED <<store, docs, convJobMap, nextJob, spawned, resp, now>>

NextFaults ==
  \/ Next
  \/ \E u \in Users, raw \in RawIds : StartJobSpawnThrows(u, raw)
  \/ \E j \in JobIds : HandlerWriteThrows(j)
  \/ \E j \in JobIds : QaSpawnThrows(j)

SpecFaults == Init /\ [][NextFaults]_vars

(***************************************************************************)
(* Properties                                                              *)
(***************************************************************************)
Last(seq) == seq[Len(seq)]

Started(j) == hist[j].user # 0

Stage1Failed(j) == hist[j].w1 \in {"1", "null", "error"}

Stage2Failed(j) == hist[j].qa \in {"1", "null", "error"}

Terminal(j) == Len(owrites[j]) > 0 /\ Last(owrites[j]) \in {"error", "done"}

\* C1: once stage 1 of a job has ended abnormally (exit code 1 or null, or a
\* launch "error" event), the server has written an "error" record as the
\* job's last record, stage 2 was not launched, no "qa" (generation) record
\* was written or is in the file, and every poll by that jobId answers "error".
C1_Stage1FailureHalts ==
  \A j \in JobIds :
    Stage1Failed(j) =>
      /\ Terminal(j) /\ Last(owrites[j]) = "error"
      /\ ~spawned[j].stage2
      /\ \A i \in 1..Len(owrites[j]) : owrites[j][i] # "qa"
      /\ files[j].stage = "error"
      /\ \A u \in Users, qConv \in PollConvs : getProgress(u, j, qConv).stage = "error"

C1_Witness ==
  \E j \in JobIds :
    /\ hist[j].w1 = "null"
    /\ resp.op = "progress" /\ resp.stage = "error" /\ resp.message = "worker exit null"

\* C2 (as claimed): when two jobs were started for the same user and
\* conversation, a poll by the conversation (either text of its number)
\* resolves to the later job, and the earlier job's file still exists.
C2_ConversationResolvesLatestJob ==
  \A n1 \in 1..MaxJobs, n2 \in 1..MaxJobs :
    LET j1 == JobIdOf(n1)
        j2 == JobIdOf(n2)
    IN  ( /\ n1 < n2 /\ Started(j1) /\ Started(j2)
          /\ hist[j1].user = hist[j2].user /\ hist[j1].conv = hist[j2].conv
          /\ \A n3 \in 1..MaxJobs :
               (n3 > n2 /\ Started(JobIdOf(n3))) =>
                 ~(hist[JobIdOf(n3)].user = hist[j2].user /\ hist[JobIdOf(n3)].conv = hist[j2].conv) )
        => /\ \A q \in RawOf(hist[j2].conv) : MapGet(GetKey(hist[j2].user, q)) = j2
           /\ files[j1].kind # "none"

\* C3: a poll that resolves no record (a jobId without a file, a conversation
\* without a registry entry, neither parameter) is answered with status 200
\* and exactly {stage: "unknown", message: ""}.
C3_NotFoundIsUnknown ==
  /\ \A u \in Users, qJobId \in PollIds, qConv \in PollConvs :
       ( \/ qJobId # "" /\ files[qJobId].kind = "none"
         \/ qJobId = "" /\ qConv # "" /\ convJobMap[GetKey(u, qConv)] = ""
         \/ qJobId = "" /\ qConv = "" )
       => getProgress(u, qJobId, qConv) = [stage |-> "unknown", message |-> ""]
  /\ resp.op = "progress" => resp.status = 200

C3_Witness ==
  /\ nextJob > 0
  /\ resp.op = "progress" /\ resp.stage = "unknown" /\ resp.message = ""
  /\ \E u \in Users, q \in RawIds : convJobMap[GetKey(u, q)] = "" /\ convJobMap[SetKey(u, q)] # ""

\* the spec's stage names for the code's: "analysis" is the extraction stage,
\* "qa" the generation stage
SpecStageName(stage) ==
  IF stage = "analysis" THEN "extraction" ELSE IF stage = "qa" THEN "generation" ELSE stage

\* C4 (as claimed): every poll result has a stage among extraction,
\* generation, done, error, unknown.
C4_PollStageIsKnown ==
  \A u \in Users, qJobId \in PollIds, qConv \in PollConvs :
    SpecStageName(getProgress(u, qJobId, qConv).stage)
      \in {"extraction", "generation", "done", "error", "unknown"}

\* C5: the server's writes to a job's record come in the order analysis
\* (before stage 1 ends), qa (when stage 1 has exited with 0, with the launch
\* of stage 2), done (when stage 2 has exited with 0): a job whose stages
\* both exited with 0 has exactly the writes analysis, qa, done.
C5_SuccessfulJobWriteOrder ==
  \A j \in JobIds :
    /\ pc[j] \in {"w1", "w1_spawnfail"} => owrites[j] = <<"analysis">>
    /\ spawned[j].stage2 => Len(owrites[j]) >= 2 /\ SubSeq(owrites[j], 1, 2) = <<"analysis", "qa">>
    /\ pc[j] \in {"qa", "qa_spawnfail"} => hist[j].w1 = "0" /\ owrites[j] = <<"analysis", "qa">>
    /\ (hist[j].w1 = "0" /\ hist[j].qa = "0") => owrites[j] = <<"analysis", "qa", "done">>

C5_Witness ==
  \E j \in JobIds :
    hist[j].w1 = "0" /\ hist[j].qa = "0" /\ pc[j] = "end" /\ files[j] = Record("done", "complete")

C6_TerminalState ==
  \A j \in JobIds :
    /\ Stage2Failed(j) => Terminal(j) /\ Last(owrites[j]) = "error" /\ files[j].stage = "error"
    /\ Terminal(j) => pc[j] = "end"
    /\ \A i \in 1..(Len(owrites[j]) - 1) : owrites[j][i] \notin {"error", "done"}

C6_TerminalStep ==
  \A j \in JobIds :
    Terminal(j) =>
      /\ owrites'[j] = owrites[j] /\ files'[j] = files[j]
      /\ spawned'[j] = spawned[j] /\ pc'[j] = pc[j]

\* C6: a failed stage 2 (exit code 1 or null, or a launch "error" event)
\* leaves an "error" record; a record "error" or "done" written by the server
\* is the job's last write, and from then on the job's record, its position
\* and its launched processes never change.
C6_FailureIsTerminal == []C6_TerminalState /\ [][C6_TerminalStep]_vars

C6_Witness ==
  \E j \in JobIds : hist[j].w1 = "0" /\ hist[j].qa = "null" /\ files[j].stage = "error"

\* C7 (as claimed): no exception escapes a handler, and a job whose stage
\* chain has come to its end has a record "done" or "error".
C7_EveryJobEndsVisibly ==
  /\ ~crashed
  /\ \A j \in JobIds :
       (Started(j) /\ pc[j] = "end") => files[j].stage \in {"done", "error"}

\* the six states matchRuleIntent has a case for (the spec's names without
\* the FLOW_ prefix), and the further states of FE_TO_BE
KnownStates ==
  {"ROOT_MENU", "FLOW_EXISTING_DOC_SELECT", "FLOW_EXISTING_DOC_CONFIG",
   "FLOW_UPLOAD_DOC_WAIT", "FLOW_UPLOAD_DOC_CONFIG", "FLOW_QG_DONE"}

ScenarioOnlyStates ==
  {"FLOW_EXISTING_DOC_COURSE", "FLOW_UPLOAD_DOC_COURSE", "FLOW_QG_TOPIC",
   "FLOW_QG_MULTI", "FLOW_QG_RESULTS"}

\* C8 (as claimed): the stored state is one of the six dialog states or null.
C8_StateIsOneOfSix == \A c \in Convs : store[c].state \in KnownStates \cup {""}

C8_StateInRange ==
  \A c \in Convs : store[c].state \in KnownStates \cup ScenarioOnlyStates \cup {""}

C8_OnlyScenarioLeavesTheSix ==
  \A c \in Convs :
    (store[c].state \in KnownStates /\ store'[c].state \notin KnownStates)
      => resp'.op = "scenario" /\ resp'.status = 204 /\ store'[c].state \in ScenarioOnlyStates

\* C8 (amended): the stored state is one of the six dialog states, one of the
\* five further states of FE_TO_BE, or null; only a state-set call (POST
\* /api/scenario) takes a conversation out of the six: no chat message, job
\* start or stage event does.
C8_StateSet == []C8_StateInRange /\ [][C8_OnlyScenarioLeavesTheSix]_vars

C8_Witness ==
  /\ store[1].state = "FLOW_QG_TOPIC"
  /\ nextJob > 0
  /\ store[1].meta.lastChoice = "1-1"

\* a step of the orchestrator: a job start that allocated a job, or a stage event
JobStarted == nextJob' = nextJob + 1

StageEvent == nextJob' = nextJob /\ pc' # pc

\* C9 (as claimed): job starts and stage events leave the state store as it is.
C9_StartLeavesStore == [][(JobStarted \/ StageEvent) => store' = store]_vars

C9_StartStep ==
  /\ StageEvent => store' = store
  /\ JobStarted =>
       LET h == hist'[JobIdOf(nextJob')]
           old == store[h.conv]
       IN  /\ \A c \in Convs \ {h.conv} : store'[c] = store[c]
           /\ store'[h.conv].state = old.state
           /\ store'[h.conv].meta =
                IF old.meta.stored_filename # "" THEN old.meta
                ELSE [old.meta EXCEPT
                        !.stored_filename = StoredName(h.user, docs[h.user]),
                        !.docTitle = OriginalName(h.user, docs[h.user])]

\* C9 (amended): a job start never changes the stored state of a conversation
\* and never another conversation's row; it changes the metadata of its own
\* conversation only when that holds no stored_filename, and then sets exactly
\* stored_filename and docTitle to the user's latest document, all other keys
\* kept; stage events change nothing in the store.
C9_StartWritesOnlyArtifact == [][C9_StartStep]_vars

C9_Witness ==
  /\ store[1].state = "FLOW_UPLOAD_DOC_CONFIG"
  /\ store[1].meta.docId = 7
  /\ store[1].meta.stored_filename = StoredName(1, 1)
  /\ store[1].meta.docTitle = OriginalName(1, 1)
  /\ hist[JobIdOf(1)].w1 = "0" /\ hist[JobIdOf(1)].qa = "0"

BackTarget(state) ==
  CASE state = "FLOW_EXISTING_DOC_SELECT" -> "ROOT_MENU"
    [] state = "FLOW_EXISTING_DOC_CONFIG" -> "FLOW_EXISTING_DOC_SELECT"
    [] state = "FLOW_UPLOAD_DOC_WAIT" -> "ROOT_MENU"
    [] state = "FLOW_UPLOAD_DOC_CONFIG" -> "FLOW_UPLOAD_DOC_WAIT"

HomeTexts == {"home", "Home", " home "}

BackTexts == {"back", "BACK", "back "}

NavigationWorks(state, meta) ==
  /\ \A t \in HomeTexts :
       LET r == matchRuleIntent(t, state, meta, now)
       IN  r.hit /\ r.newState = "ROOT_MENU"
  /\ \A t \in BackTexts :
       LET r == matchRuleIntent(t, state, meta, now)
       IN  /\ r.hit
           /\ state # "FLOW_QG_DONE" => r.newState = BackTarget(state)

\* C10 (as claimed): in every state other than ROOT_MENU that a conversation
\* is in, "home" yields ROOT_MENU and "back" the state's predecessor.
C10_NavigationInEveryNonRootState ==
  \A c \in Convs :
    store[c].state \notin {"ROOT_MENU", ""} => NavigationWorks(store[c].state, store[c].meta)

\* C10 (amended): in each of the five non-root states the engine has a case
\* for, "home" yields ROOT_MENU and "back" is a hit, with the fixed
\* predecessor in the four states other than QG_DONE; in the five further
\* states that POST /api/scenario can set, the ROOT_MENU rules apply and
\* "home" and "back" are NoMatch.
C10_NavigationInKnownStates ==
  \A c \in Convs :
    /\ store[c].state \in KnownStates \ {"ROOT_MENU"}
         => NavigationWorks(store[c].state, store[c].meta)
    /\ store[c].state \in ScenarioOnlyStates
         => \A t \in HomeTexts \cup BackTexts :
              ~matchRuleIntent(t, store[c].state, store[c].meta, now).hit

C10_Witness ==
  /\ store[1].state = "FLOW_UPLOAD_DOC_WAIT"
  /\ store[1].meta.docId = 7
  /\ resp.op = "chat" /\ resp.message = "back to upload"

\* values of the branch tag: absent, the two the menu records, and others
LastChoices == {"", "1-1", "1-2", "11", "1-1 ", "2-2"}

C11_BackOfDone ==
  \A c \in Convs, lc \in LastChoices :
    LET m1 == [store[c].meta EXCEPT !.lastChoice = lc]
    IN  \A t \in BackTexts :
          LET r == matchRuleIntent(t, "FLOW_QG_DONE", m1, now)
          IN  /\ r.hit
              /\ r.newState = (IF lc = "1-1" THEN "FLOW_EXISTING_DOC_CONFIG"
                               ELSE "FLOW_UPLOAD_DOC_CONFIG")
              /\ r.metaPatch = NoPatch

C11_BackStep ==
  \A c \in Convs :
    ( /\ store[c].state = "FLOW_QG_DONE"
      /\ resp'.op = "chat" /\ resp'.message = "back to config" )
    => /\ store'[c].state = (IF store[c].meta.lastChoice = "1-1"
                              THEN "FLOW_EXISTING_DOC_CONFIG"
                              ELSE "FLOW_UPLOAD_DOC_CONFIG")
       /\ store'[c].meta = store[c].meta

\* C11: "back" in FLOW_QG_DONE yields FLOW_EXISTING_DOC_CONFIG exactly when
\* meta.lastChoice is "1-1" and FLOW_UPLOAD_DOC_CONFIG for every other value,
\* the absent one included, with no metadata patch; a chat message "back"
\* stores that state and leaves the metadata as it was.
C11_BackFromDoneFollowsBranchTag == []C11_BackOfDone /\ [][C11_BackStep]_vars

C11_Witness ==
  /\ resp.op = "chat" /\ resp.message = "back to config"
  /\ store[1].state = "FLOW_UPLOAD_DOC_CONFIG"
  /\ store[1].meta.lastChoice = ""

\* texts of the three root-menu intents
ExistingDocTexts == {"1-1", "11", " 1-1 ", "1-1 help"}

UploadTexts == {"1-2", "12", "1-2 back"}

HelpTexts == {"help", "HELP me", "need help 1-1"}

\* C12: in ROOT_MENU, for every metadata value, an existing-document intent
\* yields FLOW_EXISTING_DOC_SELECT with the patch {lastChoice: "1-1"}, an
\* upload intent FLOW_UPLOAD_DOC_WAIT with the patch {lastChoice: "1-2"}, and
\* a help token a reply with newState ROOT_MENU and no metadata patch.
C12_RootMenuIntents ==
  \A c \in Convs, lc \in LastChoices :
    LET m1 == [store[c].meta EXCEPT !.lastChoice = lc]
    IN  /\ \A t \in ExistingDocTexts :
             LET r == matchRuleIntent(t, "ROOT_MENU", m1, now)
             IN  /\ r.hit /\ r.newState = "FLOW_EXISTING_DOC_SELECT"
                 /\ r.metaPatch.keys = {"lastChoice"}
                 /\ r.metaPatch.val.lastChoice = "1-1"
        /\ \A t \in UploadTexts :
             LET r == matchRuleIntent(t, "ROOT_MENU", m1, now)
             IN  /\ r.hit /\ r.newState = "FLOW_UPLOAD_DOC_WAIT"
                 /\ r.metaPatch.keys = {"lastChoice"}
                 /\ r.metaPatch.val.lastChoice = "1-2"
        /\ \A t \in HelpTexts :
             LET r == matchRuleIntent(t, "ROOT_MENU", m1, now)
             IN  /\ r.hit /\ r.newState = "ROOT_MENU" /\ r.reply # ""
                 /\ r.metaPatch = NoPatch

C12_Witness ==
  /\ store[1].state = "FLOW_UPLOAD_DOC_WAIT"
  /\ store[1].meta.lastChoice = "1-2"
  /\ store[1].meta.docId = 7
  /\ store[1].meta.lastRunAt # 0
  /\ resp.op = "chat" /\ resp.message = "upload: enter uploaded: <docId>"

ConfigStates == {"FLOW_EXISTING_DOC_CONFIG", "FLOW_UPLOAD_DOC_CONFIG"}

\* "set:" commands and the keys each names ("" / 0: not named)
SetCommands ==
  {[text |-> "set: questions=20, difficulty=hard",
    keys |-> {"questions", "difficulty"}, questions |-> 20, difficulty |-> "hard", type |-> ""],
   [text |-> "set: difficulty=easy",
    keys |-> {"difficulty"}, questions |-> 0, difficulty |-> "easy", type |-> ""],
   [text |-> "SET : Type=tf",
    keys |-> {"type"}, questions |-> 0, difficulty |-> "", type |-> "tf"],
   [text |-> "set: questions=5 type=tf",
    keys |-> {"questions", "type"}, questions |-> 5, difficulty |-> "", type |-> "tf"]}

\* the previous configuration with exactly the named keys overwritten
Overwritten(prev, cmd) ==
  [present |-> TRUE,
   questions |-> IF "questions" \in cmd.keys THEN cmd.questions ELSE prev.questions,
   difficulty |-> IF "difficulty" \in cmd.keys THEN cmd.difficulty ELSE prev.difficulty,
   type |-> IF "type" \in cmd.keys THEN cmd.type ELSE prev.type]

\* C13 (as claimed): in a config state, after any earlier "set:" commands, a
\* "set:" command sent as a chat message keeps the state and stores the
\* previous stored configuration (the defaults if none is stored) with
\* exactly the keys the command names overwritten.
C13_SetMergesOntoStoredConfig ==
  \A c \in Convs :
    store[c].state \in ConfigStates =>
      \A cmd \in SetCommands :
        LET meta == store[c].meta
            r == matchRuleIntent(cmd.text, store[c].state, meta, now)
            after == JsonRoundTrip(Merge(meta, r.metaPatch))
        IN  /\ r.hit /\ r.newState = store[c].state
            /\ after.config = Overwritten(CurrentConfig(meta), cmd)

\* C14: a chat message for which matchRuleIntent returns null is answered by
\* the fallback responder, and handling it leaves the stored state and
\* metadata of every conversation as they were.
C14_NoMatchLeavesStore ==
  [][(resp'.op = "chat" /\ resp'.stage = "llm") => store' = store]_vars

C14_Witness ==
  /\ resp.op = "chat" /\ resp.stage = "llm" /\ resp.status = 200
  /\ store[1].state = "FLOW_UPLOAD_DOC_CONFIG"
  /\ store[1].meta.config.present /\ store[1].meta.docId = 7

\* texts sent to the engine: commands, near-commands and free text
EngineTexts ==
  {"", " ", "set", "set:", "set : a=b=c", "select doc:", "select doc: x", "uploaded 7",
   "runs", "RUN", "1-1x", "1-2", "homework", "Home", "go back", "back", "help", "hello"}

\* the commands a state recognises, for the four states with a NoMatch exit
Recognised(state, t) ==
  CASE state = "ROOT_MENU" -> is11(t) \/ is12(t) \/ help(t)
    [] state \in ConfigStates -> home(t) \/ back(t) \/ isSet(t) \/ run(t)
    [] state = "FLOW_QG_DONE" -> home(t) \/ back(t)
    [] OTHER -> TRUE

\* C15: for each of the six states, every text and every metadata stored for
\* the conversation of the dialog,
\* matchRuleIntent returns a result whose newState is one of the six states,
\* or null; in ROOT_MENU, the two config states and FLOW_QG_DONE a text that
\* matches none of the state's commands returns null.
C15_EngineIsTotal ==
  \A state \in KnownStates, text \in EngineTexts :
    LET r == matchRuleIntent(text, state, store[1].meta, now)
    IN  /\ r.hit => r.newState \in KnownStates /\ r.reply # ""
        /\ ~r.hit => r = NoMatch
        /\ ~Recognised(state, Trim(text)) => ~r.hit

C15_Witness ==
  /\ resp.op = "chat" /\ resp.stage = "llm"
  /\ store[1].state = "FLOW_QG_DONE" /\ store[1].meta.lastRunAt # 0
  /\ store[1].meta.config.questions = Null

\* the values new Date() can have
Clocks == 1..MaxClock

DeterminismTexts == {"run", " RUN", "set: difficulty=easy", "back", "hello"}

C16_SameButStamp ==
  \A state \in KnownStates, text \in DeterminismTexts, k \in Clocks :
    LET r1 == matchRuleIntent(text, state, store[1].meta, k)
        r2 == matchRuleIntent(text, state, store[1].meta, now)
    IN  /\ r1.hit = r2.hit /\ r1.reply = r2.reply /\ r1.newState = r2.newState
        /\ IF state \in ConfigStates /\ run(Trim(text))
           THEN /\ r1.newState = "FLOW_QG_DONE"
                /\ r1.metaPatch.keys = {"lastRunAt"} /\ r1.metaPatch.val.lastRunAt = k
           ELSE r1.metaPatch = r2.metaPatch

C16_RunStep ==
  (resp'.op = "chat" /\ resp'.stage = "rule" /\ store'[1].meta.lastRunAt # store[1].meta.lastRunAt)
    => store'[1].meta.lastRunAt = now /\ store[1].state \in ConfigStates

RunTransition(c) ==
  /\ store[c].state \in ConfigStates
  /\ store'[c].state = "FLOW_QG_DONE"
  /\ resp'.op = "chat" /\ resp'.stage = "rule"

\* C17 (as claimed): the chat message that takes the "start processing"
\* transition allocates a job for its conversation, writes the job's initial
\* progress record and sets the conversation's registry entry.
C17_RunInvokesOrchestrator ==
  [][\A c \in Convs :
       RunTransition(c) =>
         /\ nextJob' = nextJob + 1
         /\ files'[JobIdOf(nextJob')].stage = "analysis"
         /\ \E raw \in RawOf(c) : convJobMap'[SetKey(OwnerOf(c), raw)] = JobIdOf(nextJob')]_vars

\* C18 (as claimed): a job started for a conversation whose metadata holds a
\* selected document (docId) gets that document as the input of stage 1; the
\* latest-upload fallback is taken only without a selected document.
C18_SelectedDocumentIsArtifact ==
  [][JobStarted =>
       LET j == JobIdOf(nextJob')
           h == hist'[j]
           meta == store[h.conv].meta
       IN  meta.docId # NaN =>
             spawned'[j].videoPath = "uploads/" \o StoredName(h.user, meta.docId)]_vars

\* the stage of the last record, as the exit statuses of the job's own
\* stages determine it
FinalStage(w1, qa) ==
  IF w1 # "0" THEN "error" ELSE IF qa = "0" THEN "done" ELSE "error"

\* the jobs a step touches
Touched ==
  {j \in JobIds :
     \/ files'[j] # files[j] \/ pc'[j] # pc[j] \/ owrites'[j] # owrites[j]
     \/ spawned'[j] # spawned[j] \/ hist'[j] # hist[j]}

C19_OwnExitsDecide ==
  \A j \in JobIds :
    (Started(j) /\ pc[j] = "end") =>
      /\ files[j].kind = "json"
      /\ files[j].stage = FinalStage(hist[j].w1, hist[j].qa)

C19_Step ==
  /\ Cardinality(Touched) <= 1
  /\ \A p \in Paths \ JobIds : files'[p] = files[p]
  /\ \A k \in Keys :
       convJobMap'[k] # convJobMap[k] =>
         \E j \in Touched :
           /\ pc[j] = "none" /\ convJobMap'[k] = j
           /\ k = SetKey(hist'[j].user, hist'[j].raw)
           /\ NumberOf(hist'[j].raw) = hist'[j].conv

\* C19: every step (a start, a stage event, a write of a stage process)
\* changes the record, position and launch arguments of at most one job and
\* no other file; a registry entry changes only in the start of a job, and
\* then the entry of that job's own conversation; the record of a job whose
\* chain has ended is determined by the exit statuses of its own stages.
C19_JobsAreIndependent == []C19_OwnExitsDecide /\ [][C19_Step]_vars

C19_Witness ==
  /\ Started(JobIdOf(1)) /\ Started(JobIdOf(2))
  /\ hist[JobIdOf(1)].conv # hist[JobIdOf(2)].conv
  /\ pc[JobIdOf(1)] = "qa" /\ files[JobIdOf(1)].stage = "qa"
  /\ pc[JobIdOf(2)] = "end" /\ files[JobIdOf(2)].stage = "error"
  /\ hist[JobIdOf(2)].w1 = "0"

C20_Sequential ==
  \A j \in JobIds :
    /\ spawned[j].stage2 => hist[j].w1 = "0"
    /\ pc[j] \in {"qa", "qa_spawnfail"} => spawned[j].stage2
    /\ pc[j] \in {"w1", "w1_spawnfail"} => ~spawned[j].stage2 /\ hist[j].w1 = ""

C20_Step ==
  \A j \in JobIds :
    /\ (spawned'[j].stage2 /\ ~spawned[j].stage2)
         => pc[j] = "w1" /\ hist[j].w1 = "" /\ hist'[j].w1 = "0"
    /\ (files'[j] # files[j] /\ owrites'[j] = owrites[j] /\ files'[j].kind = "json")
         => /\ pc[j] \in {"w1", "qa"}
            /\ files'[j].stage = (IF spawned[j].stage2 THEN "qa" ELSE "analysis")

\* C20: stage 2 of a job is launched only in the step that handles the exit
\* of its running stage 1 with code 0; while stage 1 runs stage 2 has not
\* been launched, and while stage 2 runs stage 1 has exited: a write of a
\* stage process to the job's record comes from the one stage then running.
C20_StagesNeverOverlap == []C20_Sequential /\ [][C20_Step]_vars

C20_Witness ==
  \E j \in JobIds :
    /\ pc[j] = "qa" /\ hist[j].w1 = "0" /\ spawned[j].stage2
    /\ files[j] = Record("qa", "progress")

\* the object that holds just the keys a patch supplies
Supplied(patch) == Merge(EmptyMeta, patch)

\* C21 (as claimed): setConversationState itself merges: after a call with a
\* metadata object, every stored key the object does not supply keeps its
\* value.
C21_StoreOperationMerges ==
  \A c \in Convs, patch \in ScenarioPatches :
    LET after == setConversationState(OwnerOf(c), c, store[c].state, <<Supplied(patch)>>)
    IN  \A k \in MetaKeys \ patch.keys : after[c].meta[k] = store[c].meta[k]

\* the metadata patches a step of the given handler can have supplied
PatchesOf(op, c) ==
  CASE op = "chat" ->
         {matchRuleIntent(t, IF store[c].state = "" THEN "ROOT_MENU" ELSE store[c].state,
                          store[c].meta, now).metaPatch : t \in NavTexts}
    [] op = "scenario" -> ScenarioPatches
    [] op = "start" ->
         {Patch({"stored_filename", "docTitle"},
                [EmptyMeta EXCEPT
                   !.stored_filename = StoredName(OwnerOf(c), docs[OwnerOf(c)]),
                   !.docTitle = OriginalName(OwnerOf(c), docs[OwnerOf(c)])])}
    [] OTHER -> {}

C21_MergeStep ==
  \A c \in Convs :
    store'[c] # store[c] =>
      \E patch \in PatchesOf(resp'.op, c) :
        \A k \in MetaKeys :
          store'[c].meta[k] =
            IF k \in patch.keys THEN JsonRoundTrip(patch.val)[k] ELSE store[c].meta[k]

C21_StoreReplaces ==
  \A c \in Convs, patch \in ScenarioPatches :
    /\ setConversationState(OwnerOf(c), c, "ROOT_MENU", <<Supplied(patch)>>)[c].meta
         = JsonRoundTrip(Supplied(patch))
    /\ setConversationState(OwnerOf(c), c, "ROOT_MENU", <<>>)[c].meta = store[c].meta

\* C21 (amended): setConversationState replaces the stored metadata by the
\* object it is given (as JSON stores it) and keeps the stored metadata when
\* given null; the shallow merge is made by its callers: after every chat
\* transition, scenario state-set call and job start, every key that was
\* stored and is not in the supplied patch has its previous value and every
\* supplied key has the supplied value as JSON stores it.
C21_CallersMerge == []C21_StoreReplaces /\ [][C21_MergeStep]_vars

C21_Witness ==
  /\ resp.op = "scenario" /\ resp.status = 204
  /\ store[1].meta.stored_filename = "f1_9.mp4"
  /\ store[1].meta.lastChoice = "1-2" /\ store[1].meta.docId = 7
  /\ store[1].meta.lastRunAt # 0

\* document commands and the id each carries
SelectCommands ==
  {[text |-> "select doc: 7", id |-> 7], [text |-> "SELECT  doc :12", id |-> 12],
   [text |-> " select doc: 103 please", id |-> 103]}

UploadedCommands ==
  {[text |-> "uploaded: 7", id |-> 7], [text |-> "Uploaded:201", id |-> 201],
   [text |-> "uploaded : 5, done", id |-> 5]}

\* inputs of the two document states that are neither navigation nor a
\* document command with an id
RepromptTexts ==
  {"select doc:", "select doc: x", "selectdoc: 3", "select doc 7", "uploaded:",
   "uploaded 7", "uploaded: -", "1-1", "help", "run", "set: questions=20", "hello"}

DocumentState(state, cmds, other, target) ==
  LET meta == store[1].meta
  IN  /\ \A cmd \in cmds :
           LET r == matchRuleIntent(cmd.text, state, meta, now)
           IN  /\ r.hit /\ r.newState = target
               /\ r.metaPatch.keys = {"docId"} /\ r.metaPatch.val.docId = cmd.id
               /\ JsonRoundTrip(Merge(meta, r.metaPatch)).config = meta.config
      /\ \A text \in RepromptTexts \cup {cmd.text : cmd \in other} :
           LET r == matchRuleIntent(text, state, meta, now)
           IN  /\ r.hit /\ r.reply # "" /\ r.newState = state
               /\ r.metaPatch = NoPatch

C22_DocumentCommands ==
  /\ DocumentState("FLOW_EXISTING_DOC_SELECT", SelectCommands, UploadedCommands,
                   "FLOW_EXISTING_DOC_CONFIG")
  /\ DocumentState("FLOW_UPLOAD_DOC_WAIT", UploadedCommands, SelectCommands,
                   "FLOW_UPLOAD_DOC_CONFIG")

C22_ChatStep ==
  ( /\ store[1].state \in {"FLOW_EXISTING_DOC_SELECT", "FLOW_UPLOAD_DOC_WAIT"}
    /\ resp'.op = "chat" /\ resp'.status = 200 )
  => /\ resp'.stage = "rule"
     /\ store'[1].meta.config = store[1].meta.config
     /\ store'[1].state = store[1].state => store'[1].meta = store[1].meta

RunTexts == {"run", " RUN ", "Run"}

C23_RunResult ==
  \A state \in ConfigStates, text \in RunTexts :
    LET meta == store[1].meta
        r == matchRuleIntent(text, state, meta, now)
        cfg == IF meta.config.present THEN meta.config
               ELSE [present |-> TRUE, questions |-> 10, difficulty |-> "middle", type |-> "mcq"]
    IN  /\ r.hit /\ r.newState = "FLOW_QG_DONE"
        /\ r.metaPatch.keys = {"lastRunAt"} /\ r.metaPatch.val.lastRunAt = now
        /\ r.reply = "generating; doc=" \o DocText(meta) \o ", questions="
                       \o NumText(cfg.questions) \o ", difficulty=" \o cfg.difficulty
                       \o ", type=" \o cfg.type

C23_RunStep ==
  RunTransition(1) => store'[1].meta = [store[1].meta EXCEPT !.lastRunAt = now]

\* C23: in the two config states "run" yields FLOW_QG_DONE with the patch
\* {lastRunAt} alone; its reply tells the stored configuration, or
\* questions=10, difficulty=middle, type=mcq when none is stored; a chat
\* "run" leaves the stored config, docId and lastChoice (every key but
\* lastRunAt) as they were.
C23_RunStampsOnly == []C23_RunResult /\ [][C23_RunStep]_vars

C23_Witness ==
  /\ store[1].state = "FLOW_QG_DONE"
  /\ store[1].meta.lastRunAt # 0 /\ store[1].meta.docId = 7
  /\ store[1].meta.lastChoice = "1-1"
  /\ resp.op = "chat"
  /\ resp.message = "generating; doc=7, questions=20, difficulty=hard, type=mcq"

InitialRecord == Record("analysis", "analysis: starting OCR")

C24_StartStep ==
  /\ JobStarted =>
       LET j == JobIdOf(nextJob')
       IN  /\ resp' = Response("start", 200, j, NoBody)
           /\ files'[j] = InitialRecord /\ owrites'[j] = <<"analysis">>
           /\ convJobMap'[SetKey(hist'[j].user, hist'[j].raw)] = j
           /\ spawned'[j].user = hist'[j].user /\ ~spawned'[j].stage2
           /\ pc'[j] \in {"w1", "w1_spawnfail"}
           /\ hist'[j].w1 = "" /\ hist'[j].qa = ""
  /\ (resp'.op = "start" /\ resp'.status = 200 /\ resp' # resp) => JobStarted

C24_HandlersAfterResponse ==
  \A j \in JobIds :
    (hist[j].w1 # "" \/ Len(owrites[j]) > 1) => Started(j) /\ pc[j] \notin {"w1", "w1_spawnfail"}

\* C24: the step of POST /api/process/start that allocates a job writes the
\* initial record, sets the registry entry, launches stage 1 and answers
\* with the jobId; when it has answered no "exit" or "error" handler of the
\* job has run, the record is the initial one, and the handlers run in later
\* steps.
C24_StartReturnsAtOnce == []C24_HandlersAfterResponse /\ [][C24_StartStep]_vars

C24_Witness ==
  /\ resp = Response("start", 200, JobIdOf(2), NoBody)
  /\ pc[JobIdOf(2)] = "w1" /\ files[JobIdOf(2)] = InitialRecord
  /\ pc[JobIdOf(1)] = "qa"

\* texts that match more than one rule of a state, and some that match one
OrderTexts ==
  {"1-1 help", "1-2 HELP", "help 1-1", "home", "Back", "run", "select doc: 7",
   "uploaded: 7", "homeback"}

C25_RootOrder(state) ==
  \A text \in OrderTexts :
    LET t == Trim(text)
        r == matchRuleIntent(text, state, store[1].meta, now)
    IN  /\ is11(t) => r.hit /\ r.newState = "FLOW_EXISTING_DOC_SELECT"
        /\ (~is11(t) /\ is12(t)) => r.hit /\ r.newState = "FLOW_UPLOAD_DOC_WAIT"
        /\ (~is11(t) /\ ~is12(t) /\ help(t)) => r.hit /\ r.newState = "ROOT_MENU"
        /\ (~is11(t) /\ ~is12(t) /\ ~help(t)) => ~r.hit

C25_NavigationFirst(state) ==
  \A text \in OrderTexts :
    LET t == Trim(text)
        r == matchRuleIntent(text, state, store[1].meta, now)
    IN  /\ home(t) => r = Hit("to menu", "ROOT_MENU", NoPatch)
        /\ (~home(t) /\ back(t)) =>
             /\ r.hit /\ r.metaPatch = NoPatch
             /\ state # "FLOW_QG_DONE" => r.newState = BackTarget(state)
        /\ (~home(t) /\ ~back(t) /\ r.hit) =>
             \/ r.newState = state
             \/ r.metaPatch.keys # {}

C26_StartKeyIsPollKey ==
  (resp.op = "start" /\ resp.status = 200) =>
    LET j == resp.jobId
        h == hist[j]
    IN  /\ SetKey(h.user, h.raw) = GetKey(h.user, h.raw)
        /\ getProgress(h.user, "", h.raw) = getProgress(h.user, j, "")

C27_TagAgrees ==
  /\ store[1].state \in {"FLOW_EXISTING_DOC_SELECT", "FLOW_EXISTING_DOC_CONFIG"}
       => store[1].meta.lastChoice = "1-1"
  /\ store[1].state \in {"FLOW_UPLOAD_DOC_WAIT", "FLOW_UPLOAD_DOC_CONFIG"}
       => store[1].meta.lastChoice = "1-2"
  /\ store[1].state \in KnownStates

C27_RunBackStep ==
  /\ RunTransition(1) =>
       matchRuleIntent("back", "FLOW_QG_DONE", store'[1].meta, now).newState = store[1].state
  /\ (store[1].state = "FLOW_QG_DONE" /\ store'[1].state = "FLOW_QG_DONE")
       => store'[1].meta = store[1].meta

\* C27: for a conversation driven by chat messages alone from ROOT_MENU with
\* empty metadata, lastChoice is "1-1" in FLOW_EXISTING_DOC_SELECT and
\* FLOW_EXISTING_DOC_CONFIG and "1-2" in FLOW_UPLOAD_DOC_WAIT and
\* FLOW_UPLOAD_DOC_CONFIG; after a "run" the metadata is such that "back" in
\* FLOW_QG_DONE yields the config state the "run" came from, and it stays so
\* while the conversation is in FLOW_QG_DONE.
C27_BranchTagAgrees == []C27_TagAgrees /\ [][C27_RunBackStep]_vars

C27_Witness ==
  /\ store[1].state = "FLOW_EXISTING_DOC_CONFIG"
  /\ store[1].meta.lastChoice = "1-1" /\ store[1].meta.lastRunAt # 0
  /\ resp.op = "chat" /\ resp.message = "back to config"

\* C28 (as claimed): for a conversation driven by chat messages alone, in the
\* two config states and in FLOW_QG_DONE the stored metadata holds a numeric
\* docId.
C28_ConfigHasDocument ==
  store[1].state \in ConfigStates \cup {"FLOW_QG_DONE"}
    => store[1].meta.docId \notin {NaN, Null, Infinity}

\* the metadata user 1's own job start can have written
OwnArtifacts ==
  {[EmptyMeta EXCEPT !.stored_filename = StoredName(1, n),
                     !.docTitle = OriginalName(1, n)] : n \in 1..docs[1]}

C29_OthersUntouched ==
  /\ store[1].state = "ROOT_MENU"
  /\ store[1].meta \in {EmptyMeta} \cup OwnArtifacts
  /\ \A qConv \in RawIds :
       LET j == MapGet(GetKey(2, qConv))
       IN  j # "" => hist[j].user = 2
  /\ (\A j \in JobIds : Started(j) => hist[j].user = 1)
       => \A qConv \in PollConvs : getProgress(2, "", qConv) = UnknownProgress
  /\ (resp.op = "progress" /\ \A j \in JobIds : Started(j) => hist[j].user = 1)
       => resp.stage = "unknown"

C29_OwnerStep ==
  store'[1] # store[1] => JobStarted /\ hist'[JobIdOf(nextJob')].user = 1

\* C29: while user 2 sends chat messages, state-set calls and job starts for
\* every conversation, the row of user 1's conversation changes only in
\* user 1's own job start (state ROOT_MENU, metadata empty or the artifact
\* of that start); a poll by conversation of user 2 resolves only jobs that
\* user 2 started, and answers "unknown" while all jobs are user 1's.
C29_UsersAreIsolated == []C29_OthersUntouched /\ [][C29_OwnerStep]_vars

C29_Witness ==
  /\ store[2].state = "FLOW_QG_DONE" /\ store[2].meta.stored_filename = "f1_9.mp4"
  /\ Started(JobIdOf(1)) /\ hist[JobIdOf(1)].user = 1
  /\ files[JobIdOf(1)].stage = "qa"
  /\ store[1].meta \in OwnArtifacts
  /\ resp.op = "progress" /\ resp.stage = "unknown"

C30_StartStep ==
  JobStarted =>
    spawned'[JobIdOf(nextJob')].videoPath = "uploads/" \o StoredName(1, docs[1])

\* C30: with no document ever selected, every job start launches stage 1 on
\* the most recent upload of the user at that moment.
C30_StartUsesLatestUpload == [][C30_StartStep]_vars

\* the start request of user u for raw id raw is one the claim calls rejected
C31_NotOwned(u, raw) ==
  NumberOf(raw) \notin Convs \/ OwnerOf(NumberOf(raw)) # u

C31_NoInput(u, raw) ==
  /\ ~C31_NotOwned(u, raw)
  /\ store[NumberOf(raw)].meta.stored_filename = ""
  /\ docs[u] = 0

C31_NothingCreated ==
  /\ resp'.jobId = ""
  /\ UNCHANGED <<store, docs, convJobMap, files, pc, nextJob, spawned, owrites, hist>>

C31_RejectStep ==
  /\ resp'.op = "start" =>
       \A u \in Users, raw \in RawIds :
         /\ (C31_NotOwned(u, raw) /\ StartJob(u, raw))
              => resp'.status = 404 /\ C31_NothingCreated
         /\ (C31_NoInput(u, raw) /\ StartJob(u, raw))
              => resp'.status = 400 /\ C31_NothingCreated
  /\ (resp' # resp /\ resp'.op = "start" /\ resp'.status # 200)
       => resp'.status \in {400, 404} /\ C31_NothingCreated

\* C31: a start request for a conversation the requesting user does not own
\* answers 404, one with no stored file in the metadata and no uploaded
\* document answers 400; either way no jobId is returned or allocated, no
\* progress record is written, the registry, the stage processes and the
\* conversation rows stay as they were.
C31_RejectedStartCreatesNothing == [][C31_RejectStep]_vars

C31_Witness ==
  /\ resp.op = "start" /\ resp.status = 400 /\ resp.jobId = ""
  /\ docs[1] = 0 /\ store[1].meta.stored_filename = ""
  /\ nextJob = 1 /\ hist[JobIdOf(1)].user = 2
  /\ pc[JobIdOf(1)] = "w1"

====
